---- MODULE Spec2Model ----
(***************************************************************************)
(* 3D ROI max pooling (src/caffe/layers/roi_pooling_layer.cu): the forward *)
(* kernel ROIPoolForward, the backward kernel ROIPoolBackward and the two  *)
(* host functions that launch them, for Dtype = float.                     *)
(***************************************************************************)
EXTENDS Integers, Sequences, FiniteSets, TLC

(***************************************************************************)
(* Dtype = float arithmetic.  A non-negative float is <<m, s>>, standing   *)
(* for m / 2^s, with m < 2^MantBits; every operation rounds its exact      *)
(* result to MantBits significant bits, to nearest, ties to even.          *)
(***************************************************************************)
MantBits == 24

Max(a, b) == IF a > b THEN a ELSE b

Min(a, b) == IF a < b THEN a ELSE b

FZero == <<0, 0>>

\* Bits of n beyond MantBits: the number of low bits a rounding drops.
RECURSIVE ExcessBits(_)
ExcessBits(n) == IF n < 2^MantBits THEN 0 ELSE 1 + ExcessBits(n \div 2)

\* n / 2^s rounded to MantBits significant bits (n below 2^31).
RoundToFloat(n, s) ==
    LET d    == ExcessBits(n)
        q    == n \div 2^d
        r    == n % 2^d
        up   == d > 0 /\ (2 * r > 2^d \/ (2 * r = 2^d /\ q % 2 = 1))
        m    == IF up THEN q + 1 ELSE q
    IN  IF m = 2^MantBits THEN <<2^(MantBits - 1), s - d - 1>> ELSE <<m, s - d>>

\* The number of bits of n: 0 for 0, 3 for 4..7.
RECURSIVE Bits(_)
Bits(n) == IF n = 0 THEN 0 ELSE 1 + Bits(n \div 2)

\* static_cast<Dtype>(i) for an int 0 < i < 2^MantBits: exact, and normalised.
FloatOfInt(i) == <<i * 2^(MantBits - Bits(i)), MantBits - Bits(i)>>

\* static_cast<Dtype>(i) * f for an int i >= 0.
FloatMulInt(i, f) == IF i = 0 \/ f[1] = 0 THEN FZero ELSE RoundToFloat(i * f[1], f[2])

\* k more quotient bits of a division by m: qr is <<quotient, remainder>> so
\* far, with remainder < m < 2^MantBits and k <= 7.
DivStep(qr, m, k) ==
    <<qr[1] * 2^k + (qr[2] * 2^k) \div m, (qr[2] * 2^k) % m>>

\* x / y for normalised floats x, y > 0.
FloatDiv(x, y) ==
    LET big == x[1] >= y[1]
        m   == y[1]
        q0  == IF big THEN <<1, x[1] - m>> ELSE <<0, x[1]>>
        q1  == DivStep(q0, m, 7)
        q2  == DivStep(q1, m, 7)
        q3  == DivStep(q2, m, 7)
        qr  == DivStep(q3, m, IF big THEN MantBits - 22 ELSE MantBits - 21)
        s   == (IF big THEN MantBits - 1 ELSE MantBits) + x[2] - y[2]
        up  == 2 * qr[2] > m \/ (2 * qr[2] = m /\ qr[1] % 2 = 1)
        q   == IF up THEN qr[1] + 1 ELSE qr[1]
    IN  IF q = 2^MantBits THEN <<2^(MantBits - 1), s - 1>> ELSE <<q, s>>

\* static_cast<Dtype>(a) / static_cast<Dtype>(b) for positive ints a, b.
FloatDivInt(a, b) == FloatDiv(FloatOfInt(a), FloatOfInt(b))

\* static_cast<Dtype>(x) / f for an int x >= 0 and a normalised float f > 0.
FloatDivFloat(x, f) == IF x = 0 THEN FZero ELSE FloatDiv(FloatOfInt(x), f)

\* floor(f) and ceil(f) as ints.
floor(f) ==
    IF f[2] <= 0 THEN f[1] * 2^(0 - f[2])
    ELSE IF f[2] > 30 THEN 0 ELSE f[1] \div 2^f[2]

ceil(f) ==
    IF f[2] <= 0 THEN f[1] * 2^(0 - f[2])
    ELSE IF f[2] > 30 THEN (IF f[1] > 0 THEN 1 ELSE 0)
    ELSE (f[1] \div 2^f[2]) + (IF f[1] % 2^f[2] = 0 THEN 0 ELSE 1)

(***************************************************************************)
(* The layer: its shape fields, its blobs (flat row-major arrays, indexed  *)
(* from 0) and where the host is.                                          *)
(***************************************************************************)
VARIABLES
    num_,                 \* bottom[0]->num(): volumes in the batch
    channels_, length_, height_, width_,
    pooled_length_, pooled_height_, pooled_width_,
    spatial_scale_xy_,    \* in halves: 1 is 0.5, 2 is 1.0
    spatial_scale_z_,     \* in halves
    bottom_data,          \* bottom[0] data: the feature volume
    bottom_rois,          \* bottom[1] data: 7 numbers a region
    top_data,             \* top[0] data: the pooled output
    max_idx_,             \* the selection index (argmax)
    top_diff,             \* top[0] diff: the output gradient
    bottom_diff,          \* bottom[0] diff: the input gradient
    pc,                   \* "init", "forward", "pooled", "backward", "done", "skipped"
    todo,                 \* kernel index -> registers of its unit, while it runs
    writes,               \* <<array, address>> -> units that stored there in this launch
    reads                 \* <<array, address>> loaded in this launch

vars == <<num_, channels_, length_, height_, width_, pooled_length_, pooled_height_,
          pooled_width_, spatial_scale_xy_, spatial_scale_z_, bottom_data, bottom_rois,
          top_data, max_idx_, top_diff, bottom_diff, pc, todo, writes, reads>>

\* Feature values and gradients are integers, compared and added as the
\* floats they stand for; FLT_MAX is the largest of them, and -FLT_MAX the
\* initial maximum of a non-empty bin.
FLT_MAX == 2147483647

num_rois == Len(bottom_rois) \div 7

top_count == num_rois * channels_ * pooled_length_ * pooled_height_ * pooled_width_

bottom_count == num_ * channels_ * length_ * height_ * width_

\* round(x * spatial_scale): to nearest, halves away from zero (scale in halves).
round(x, scale) ==
    LET v == x * scale
    IN  IF v >= 0 THEN (v + 1) \div 2 ELSE 0 - ((1 - v) \div 2)

\* A region's batch index and rounded bounds; rois holds 7 numbers a region.
Roi(rois, roi_n) ==
    LET roi_offset == roi_n * 7
    IN  [batch_ind |-> rois[roi_offset + 1],
         start_w |-> round(rois[roi_offset + 2], spatial_scale_xy_),
         start_h |-> round(rois[roi_offset + 3], spatial_scale_xy_),
         start_l |-> round(rois[roi_offset + 4], spatial_scale_z_),
         end_w   |-> round(rois[roi_offset + 5], spatial_scale_xy_),
         end_h   |-> round(rois[roi_offset + 6], spatial_scale_xy_),
         end_l   |-> round(rois[roi_offset + 7], spatial_scale_z_)]

\* RoiExtent without the + 1 of an inclusive end.
RoiExtent_NoPlusOne(roi_start, roi_end) == Max(roi_end - roi_start, 1)

\* Force malformed ROIs to be 1x1.
RoiExtent(roi_start, roi_end) == Max(roi_end - roi_start + 1, 1)

BinSize(roi_extent, pooled) == FloatDivInt(roi_extent, pooled)

\* A bin's first scanned coordinate on one axis, offset by the region and clipped.
BinStart(p, bin_size, roi_start, dim) ==
    Min(Max(floor(FloatMulInt(p, bin_size)) + roi_start, 0), dim)

\* BinEnd with floor(...) + 1 for ceil(...).
BinEnd_FloorPlusOne(p, bin_size, roi_start, dim) ==
    Min(Max(floor(FloatMulInt(p + 1, bin_size)) + 1 + roi_start, 0), dim)

\* One past a bin's last scanned coordinate on one axis.
BinEnd(p, bin_size, roi_start, dim) ==
    Min(Max(ceil(FloatMulInt(p + 1, bin_size)) + roi_start, 0), dim)

\* The flat (depth, height, width) coordinate.
FlatIndex(l, h, w) == l * height_ * width_ + h * width_ + w

\* (n, c, pl, ph, pw) of a pooled-output index.
TopCoord(index) ==
    [pw |-> index % pooled_width_,
     ph |-> (index \div pooled_width_) % pooled_height_,
     pl |-> ((index \div pooled_width_) \div pooled_height_) % pooled_length_,
     c  |-> (((index \div pooled_width_) \div pooled_height_) \div pooled_length_) % channels_,
     n  |-> (((index \div pooled_width_) \div pooled_height_) \div pooled_length_) \div channels_]

\* The clipped box ROIPoolForward scans for one output index.
ScanBox(index) ==
    LET t   == TopCoord(index)
        roi == Roi(bottom_rois, t.n)
        roi_width  == RoiExtent(roi.start_w, roi.end_w)
        roi_height == RoiExtent(roi.start_h, roi.end_h)
        roi_length == RoiExtent(roi.start_l, roi.end_l)
        bin_size_l == BinSize(roi_length, pooled_length_)
        bin_size_h == BinSize(roi_height, pooled_height_)
        bin_size_w == BinSize(roi_width, pooled_width_)
    IN  [lstart |-> BinStart(t.pl, bin_size_l, roi.start_l, length_),
         lend   |-> BinEnd(t.pl, bin_size_l, roi.start_l, length_),
         hstart |-> BinStart(t.ph, bin_size_h, roi.start_h, height_),
         hend   |-> BinEnd(t.ph, bin_size_h, roi.start_h, height_),
         wstart |-> BinStart(t.pw, bin_size_w, roi.start_w, width_),
         wend   |-> BinEnd(t.pw, bin_size_w, roi.start_w, width_)]

\* IsEmpty with < for <=.
IsEmpty_Strict(box) ==
    box.lend < box.lstart \/ box.hend < box.hstart \/ box.wend < box.wstart

IsEmpty(box) ==
    box.lend <= box.lstart \/ box.hend <= box.hstart \/ box.wend <= box.wstart

\* The k-th coordinate the three nested loops visit: depth outer, width inner.
BoxCoord(box, k) ==
    LET nw == box.wend - box.wstart
        nh == box.hend - box.hstart
    IN  [l |-> box.lstart + (k \div (nw * nh)),
         h |-> box.hstart + ((k \div nw) % nh),
         w |-> box.wstart + (k % nw)]

BoxSize(box) ==
    IF IsEmpty(box) THEN 0
    ELSE (box.lend - box.lstart) * (box.hend - box.hstart) * (box.wend - box.wstart)

\* ScanStep with >= for >.
ScanStep_GreaterOrEqual(best, value, bottom_index) ==
    IF value >= best.maxval THEN [maxval |-> value, maxidx |-> bottom_index] ELSE best

\* One step of the scan: a strictly greater value replaces the maximum.
ScanStep(best, value, bottom_index) ==
    IF value > best.maxval THEN [maxval |-> value, maxidx |-> bottom_index] ELSE best

RECURSIVE ScanLoop(_, _, _, _)
ScanLoop(box, data_offset, k, best) ==
    IF k >= BoxSize(box) THEN best
    ELSE LET at == BoxCoord(box, k)
             bottom_index == FlatIndex(at.l, at.h, at.w)
         IN  ScanLoop(box, data_offset, k + 1,
                      ScanStep(best, bottom_data[data_offset + bottom_index], bottom_index))

\* The body of the forward kernel for one index: what it writes to top_data
\* and argmax_data.
ROIPoolForward(index) ==
    LET t   == TopCoord(index)
        box == ScanBox(index)
        roi_batch_ind == Roi(bottom_rois, t.n).batch_ind
        maxval == IF IsEmpty(box) THEN 0 ELSE 0 - FLT_MAX
        data_offset == (roi_batch_ind * channels_ + t.c) * length_ * height_ * width_
    IN  ScanLoop(box, data_offset, 0, [maxval |-> maxval, maxidx |-> 0 - 1])

\* (n, c, l, h, w) of a feature-volume index.
BottomCoord(index) ==
    [w |-> index % width_,
     h |-> (index \div width_) % height_,
     l |-> ((index \div width_) \div height_) % length_,
     c |-> (((index \div width_) \div height_) \div length_) % channels_,
     n |-> (((index \div width_) \div height_) \div length_) \div channels_]

\* Skip if ROI doesn't include (l, h, w).
InRoi(roi, l, h, w) ==
    /\ w >= roi.start_w /\ w <= roi.end_w
    /\ h >= roi.start_h /\ h <= roi.end_h
    /\ l >= roi.start_l /\ l <= roi.end_l

\* First pooled bin that could have pooled coordinate x, on one axis.
PoolStart(x, roi_start, bin_size, pooled) ==
    Min(Max(floor(FloatDivFloat(x - roi_start, bin_size)), 0), pooled)

\* PoolEnd without the + 1.
PoolEnd_NoPlusOne(x, roi_start, bin_size, pooled) ==
    Min(Max(ceil(FloatDivFloat(x - roi_start, bin_size)), 0), pooled)

\* One past the last pooled bin that could have pooled coordinate x.
PoolEnd(x, roi_start, bin_size, pooled) ==
    Min(Max(ceil(FloatDivFloat(x - roi_start + 1, bin_size)), 0), pooled)

RECURSIVE SumSeq(_)
SumSeq(seq) == IF Len(seq) = 0 THEN 0 ELSE Head(seq) + SumSeq(Tail(seq))

\* F(lo) + ... + F(hi - 1): a for loop that accumulates.
SumRange(lo, hi, F(_)) == SumSeq([i \in 1..(hi - lo) |-> F(lo + i - 1)])

\* The output gradient of one candidate bin, if it selected this element.
BinGradient(diff, argmax, offset, pl, ph, pw, flat) ==
    LET at == offset + pl * pooled_height_ * pooled_width_ + ph * pooled_width_ + pw
    IN  IF argmax[at] = flat THEN diff[at] ELSE 0

\* The pooled bins that could have pooled element e of region roi.
Candidates(roi, e) ==
    LET bin_size_l == BinSize(RoiExtent(roi.start_l, roi.end_l), pooled_length_)
        bin_size_h == BinSize(RoiExtent(roi.start_h, roi.end_h), pooled_height_)
        bin_size_w == BinSize(RoiExtent(roi.start_w, roi.end_w), pooled_width_)
    IN  [plstart |-> PoolStart(e.l, roi.start_l, bin_size_l, pooled_length_),
         plend   |-> PoolEnd(e.l, roi.start_l, bin_size_l, pooled_length_),
         phstart |-> PoolStart(e.h, roi.start_h, bin_size_h, pooled_height_),
         phend   |-> PoolEnd(e.h, roi.start_h, bin_size_h, pooled_height_),
         pwstart |-> PoolStart(e.w, roi.start_w, bin_size_w, pooled_width_),
         pwend   |-> PoolEnd(e.w, roi.start_w, bin_size_w, pooled_width_)]

\* The three loops over the candidate bins of region roi_n.
CandidateSum(diff, argmax, roi_n, e) ==
    LET offset == (roi_n * channels_ + e.c) * pooled_length_ * pooled_height_ * pooled_width_
        cand   == Candidates(Roi(bottom_rois, roi_n), e)
        flat   == FlatIndex(e.l, e.h, e.w)
    IN  SumRange(cand.plstart, cand.plend, LAMBDA pl :
          SumRange(cand.phstart, cand.phend, LAMBDA ph :
            SumRange(cand.pwstart, cand.pwend, LAMBDA pw :
              BinGradient(diff, argmax, offset, pl, ph, pw, flat))))

\* RoiGradient without the batch index test.
RoiGradient_NoBatchCheck(diff, argmax, roi_n, e) ==
    IF ~InRoi(Roi(bottom_rois, roi_n), e.l, e.h, e.w) THEN 0
    ELSE CandidateSum(diff, argmax, roi_n, e)

\* What one region adds to the gradient of element e = (n, c, l, h, w).
RoiGradient(diff, argmax, roi_n, e) ==
    IF e.n # Roi(bottom_rois, roi_n).batch_ind THEN 0
    ELSE IF ~InRoi(Roi(bottom_rois, roi_n), e.l, e.h, e.w) THEN 0
    ELSE CandidateSum(diff, argmax, roi_n, e)

\* The body of the backward kernel for one index: what it writes to bottom_diff.
ROIPoolBackward(index, diff, argmax) ==
    LET e == BottomCoord(index)
    IN  SumRange(0, num_rois, LAMBDA roi_n : RoiGradient(diff, argmax, roi_n, e))

(***************************************************************************)
(* The inputs.                                                             *)
(***************************************************************************)
\* Pooled extents run over 1..MaxPooled; raw region starts over
\* -MaxCoord..MaxCoord.
MaxPooled == 2

MaxCoord == 3

\* A feature value: 0 stands for -FLT_MAX itself, the least value a finite
\* float holds.
FeatureValue(k) == IF k = 0 THEN 0 - FLT_MAX ELSE k

\* Feature volumes: element i holds FeatureValue((mul * i + add) % mod).
FeatureSeeds ==
    { <<0, 1, 2>>,      \* every element equal: ties everywhere
      <<1, 1, 3>>,      \* 1, 2, -FLT_MAX, 1, 2, -FLT_MAX, ...
      <<37, 1, 101>> }  \* pairwise distinct, scrambled

Features(seed, count) ==
    [i \in 0..(count - 1) |-> FeatureValue((seed[1] * i + seed[2]) % seed[3])]

Zeros(count) == [i \in 0..(count - 1) |-> 0]

\* Output gradients: all ones, or a different value in every bin.
TopDiffs(count) == { [i \in 0..(count - 1) |-> 1], [i \in 0..(count - 1) |-> i + 1] }

\* Raw <<start, end>> of a region on one axis: in order, or malformed by one.
Spans == { <<s, s + d>> : s \in (0 - MaxCoord)..MaxCoord, d \in (0 - 1)..2 }

Region(batch_ind, w, h, l) == <<batch_ind, w[1], h[1], l[1], w[2], h[2], l[2]>>

\* Regions that are unusual on at most one axis.
OneAxisRegions(batch_ind) ==
    {Region(batch_ind, w, <<0, 1>>, <<0, 1>>) : w \in Spans}
        \cup {Region(batch_ind, <<0, 2>>, h, <<0, 1>>) : h \in Spans}
        \cup {Region(batch_ind, <<1, 2>>, <<0, 0>>, l) : l \in Spans}

\* Pooled shapes: non-decreasing extents, and two shapes with the depth or the
\* height the largest.
PooledShapes ==
    { p \in (1..MaxPooled) \X (1..MaxPooled) \X (1..MaxPooled) : p[1] <= p[2] /\ p[2] <= p[3] }
        \cup {<<2, 1, 1>>, <<1, 2, 1>>}

Config(shape, pooled, scale, seed, rois) ==
    [shape |-> shape, pooled |-> pooled, scale |-> scale, seed |-> seed, rois |-> rois]

\* One region in a batch of two volumes of the given number of channels; the
\* scales differ by axis group.
OneRegionConfigsOf(batch_ind, channels, scale) ==
    { Config(<<2, channels, 2, 2, 3>>, pooled, scale, seed, roi) :
        pooled \in PooledShapes, seed \in FeatureSeeds, roi \in OneAxisRegions(batch_ind) }

OneRegionConfigs == OneRegionConfigsOf(0, 2, <<2, 1>>) \cup OneRegionConfigsOf(1, 1, <<1, 2>>)

\* Two regions, in the same volume or in different ones.
FewRegions(batch_ind) ==
    { Region(batch_ind, <<0, 2>>, <<0, 1>>, <<0, 1>>),
      Region(batch_ind, <<1, 3>>, <<0, 0>>, <<1, 1>>),
      Region(batch_ind, <<2, 1>>, <<1, 1>>, <<0, 1>>),
      Region(batch_ind, <<0 - 1, 0>>, <<1, 2>>, <<0, 0>>) }

TwoRegionConfigs ==
    { Config(<<2, 2, 2, 2, 3>>, pooled, <<2, 2>>, seed, r1 \o r2) :
        pooled \in PooledShapes, seed \in FeatureSeeds,
        r1 \in FewRegions(0), r2 \in FewRegions(0) \cup FewRegions(1) }

\* Many bins over a short extent, on a volume of one row.
ManyBinConfigs ==
    { Config(<<1, 1, 1, 1, 8>>, <<1, 1, 13>>, <<2, 2>>, seed,
             Region(0, w, <<0, 0>>, <<0, 0>>)) :
        seed \in FeatureSeeds, w \in {<<0, 6>>, <<1, 7>>, <<0 - 7, 0 - 1>>, <<0, 7>>} }

\* A 4 x 4 x 4 volume pooled to 2 x 2 x 2.
CubeConfigs ==
    { Config(<<1, 1, 4, 4, 4>>, <<2, 2, 2>>, <<2, 2>>, seed, Region(0, w, h, l)) :
        seed \in FeatureSeeds,
        w \in {<<0, 3>>, <<1, 2>>, <<2, 3>>}, h \in {<<0, 3>>, <<0, 1>>},
        l \in {<<0, 3>>, <<1, 2>>} }

Configs == OneRegionConfigs \cup TwoRegionConfigs \cup ManyBinConfigs \cup CubeConfigs

Product(seq) == IF Len(seq) = 0 THEN 1 ELSE seq[1] * seq[2] * seq[3] * seq[4] * seq[5]

\* The layer set up on its inputs, before Forward.
Setup(cfg) ==
    /\ num_ = cfg.shape[1] /\ channels_ = cfg.shape[2] /\ length_ = cfg.shape[3]
    /\ height_ = cfg.shape[4] /\ width_ = cfg.shape[5]
    /\ pooled_length_ = cfg.pooled[1] /\ pooled_height_ = cfg.pooled[2]
    /\ pooled_width_ = cfg.pooled[3]
    /\ spatial_scale_xy_ = cfg.scale[1] /\ spatial_scale_z_ = cfg.scale[2]
    /\ bottom_data = Features(cfg.seed, Product(cfg.shape))
    /\ bottom_rois = cfg.rois
    /\ top_data = Zeros((Len(cfg.rois) \div 7) * cfg.shape[2] * cfg.pooled[1] * cfg.pooled[2] * cfg.pooled[3])
    /\ max_idx_ = top_data
    /\ top_diff = top_data
    /\ bottom_diff = Zeros(Product(cfg.shape))
    /\ pc = "init"
    /\ todo = <<>>
    /\ writes = <<>>
    /\ reads = {}

Init == \E cfg \in Configs : Setup(cfg)

\* Forward_gpu: launch ROIPoolForward over every pooled-output index.
Forward_gpu ==
    /\ pc = "init"
    /\ LET out == [index \in 0..(top_count - 1) |-> ROIPoolForward(index)]
       IN  /\ top_data' = [index \in 0..(top_count - 1) |-> out[index].maxval]
           /\ max_idx_' = [index \in 0..(top_count - 1) |-> out[index].maxidx]
    /\ pc' = "pooled"
    /\ UNCHANGED <<num_, channels_, length_, height_, width_, pooled_length_,
                   pooled_height_, pooled_width_, spatial_scale_xy_, spatial_scale_z_,
                   bottom_data, bottom_rois, top_diff, bottom_diff, todo, writes, reads>>

\* Backward_gpu: nothing without propagate_down[0]; else zero bottom_diff and
\* launch ROIPoolBackward over every feature-volume index.
Backward_gpu ==
    /\ pc = "pooled"
    /\ \E propagate_down \in BOOLEAN, diff \in TopDiffs(top_count) :
          /\ top_diff' = diff
          /\ IF propagate_down
             THEN /\ bottom_diff' = [index \in 0..(bottom_count - 1) |->
                                        ROIPoolBackward(index, diff, max_idx_)]
                  /\ pc' = "done"
             ELSE /\ bottom_diff' = bottom_diff
                  /\ pc' = "skipped"
    /\ UNCHANGED <<num_, channels_, length_, height_, width_, pooled_length_,
                   pooled_height_, pooled_width_, spatial_scale_xy_, spatial_scale_z_,
                   bottom_data, bottom_rois, top_data, max_idx_, todo, writes, reads>>

Next == Forward_gpu \/ Backward_gpu

Spec == Init /\ [][Next]_vars

(***************************************************************************)
(* The kernels unit by unit.  A launch starts one unit of work per index   *)
(* of the kernel loop; a unit first reads its inputs and computes in       *)
(* registers (Load), then writes its results (Store).  Units of one launch *)
(* take their steps in any order, which covers every assignment of units   *)
(* to workers.  `writes' maps each address written since the launch to the *)
(* units that wrote it; `reads' holds the addresses read since the launch. *)
(***************************************************************************)
\* The indices the kernel loop runs its body for.
KernelLoop(nthreads) == 0..(nthreads - 1)

Unit(at, val, idx) == [at |-> at, val |-> val, idx |-> idx]

Launch(nthreads) == [index \in KernelLoop(nthreads) |-> Unit("load", 0, 0)]

Retire(units, index) == [i \in DOMAIN units \ {index} |-> units[i]]

Log(log, addrs, index) ==
    [x \in DOMAIN log \cup addrs |->
        (IF x \in DOMAIN log THEN log[x] ELSE {}) \cup (IF x \in addrs THEN {index} ELSE {})]

\* TopAddress that drops the region and channel of the index.
TopAddress_BinOnly(index) == index % (pooled_length_ * pooled_height_ * pooled_width_)

\* Where unit index of the forward kernel stores into top_data and argmax_data.
TopAddress(index) == index

\* Where unit index of the backward kernel stores into bottom_diff.
BottomAddress(index) == index

\* The addresses unit index of the forward kernel reads.
ForwardReads(index) ==
    LET t   == TopCoord(index)
        box == ScanBox(index)
        data_offset == (Roi(bottom_rois, t.n).batch_ind * channels_ + t.c)
                          * length_ * height_ * width_
    IN  { <<"bottom_rois", t.n * 7 + k>> : k \in 0..6 }
        \cup { <<"bottom_data", data_offset + FlatIndex(BoxCoord(box, k).l,
                    BoxCoord(box, k).h, BoxCoord(box, k).w)>> : k \in 0..(BoxSize(box) - 1) }

\* The addresses unit index of the backward kernel reads for region roi_n.
RoiReads(index, roi_n) ==
    LET e      == BottomCoord(index)
        roi    == Roi(bottom_rois, roi_n)
        cand   == Candidates(roi, e)
        offset == (roi_n * channels_ + e.c) * pooled_length_ * pooled_height_ * pooled_width_
        bins   == { offset + pl * pooled_height_ * pooled_width_ + ph * pooled_width_ + pw :
                      pl \in cand.plstart..(cand.plend - 1),
                      ph \in cand.phstart..(cand.phend - 1),
                      pw \in cand.pwstart..(cand.pwend - 1) }
    IN  IF e.n # roi.batch_ind THEN { <<"bottom_rois", roi_n * 7>> }
        ELSE { <<"bottom_rois", roi_n * 7 + k>> : k \in 0..6 }
             \cup IF ~InRoi(roi, e.l, e.h, e.w) THEN {}
                  ELSE { <<"argmax_data", at>> : at \in bins }
                       \cup { <<"top_diff", at>> :
                                at \in { b \in bins : max_idx_[b] = FlatIndex(e.l, e.h, e.w) } }

BackwardReads(index) == UNION { RoiReads(index, roi_n) : roi_n \in 0..(num_rois - 1) }

Geometry == <<num_, channels_, length_, height_, width_, pooled_length_, pooled_height_,
              pooled_width_, spatial_scale_xy_, spatial_scale_z_, bottom_data, bottom_rois>>

\* Forward_gpu up to the launch of ROIPoolForward over count units.
Forward_launch ==
    /\ pc = "init"
    /\ todo' = Launch(top_count)
    /\ writes' = <<>>
    /\ reads' = {}
    /\ pc' = "forward"
    /\ UNCHANGED <<Geometry, top_data, max_idx_, top_diff, bottom_diff>>

\* One unit of ROIPoolForward up to its two stores.
ForwardLoad(index) ==
    /\ pc = "forward"
    /\ todo[index].at = "load"
    /\ LET out == ROIPoolForward(index)
       IN  todo' = [todo EXCEPT ![index] = Unit("store", out.maxval, out.maxidx)]
    /\ reads' = reads \cup ForwardReads(index)
    /\ UNCHANGED <<Geometry, top_data, max_idx_, top_diff, bottom_diff, pc, writes>>

\* The two stores of one unit of ROIPoolForward; the kernel is over with
\* the last of them.
ForwardStore(index) ==
    /\ pc = "forward"
    /\ todo[index].at = "store"
    /\ top_data' = [top_data EXCEPT ![TopAddress(index)] = todo[index].val]
    /\ max_idx_' = [max_idx_ EXCEPT ![TopAddress(index)] = todo[index].idx]
    /\ writes' = Log(writes, { <<"top_data", TopAddress(index)>>,
                               <<"argmax_data", TopAddress(index)>> }, index)
    /\ todo' = Retire(todo, index)
    /\ pc' = IF DOMAIN todo = {index} THEN "pooled" ELSE "forward"
    /\ UNCHANGED <<Geometry, top_diff, bottom_diff, reads>>

\* Backward_gpu up to the launch of ROIPoolBackward over count units.
Backward_launch ==
    /\ pc = "pooled"
    /\ \E propagate_down \in BOOLEAN, diff \in TopDiffs(top_count) :
          /\ top_diff' = diff
          /\ IF propagate_down
             THEN /\ bottom_diff' = Zeros(bottom_count)
                  /\ todo' = Launch(bottom_count)
                  /\ writes' = <<>>
                  /\ reads' = {}
                  /\ pc' = "backward"
             ELSE /\ UNCHANGED <<bottom_diff, todo, writes, reads>>
                  /\ pc' = "skipped"
    /\ UNCHANGED <<Geometry, top_data, max_idx_>>

\* One unit of ROIPoolBackward up to its store.
BackwardLoad(index) ==
    /\ pc = "backward"
    /\ todo[index].at = "load"
    /\ todo' = [todo EXCEPT ![index] =
                    Unit("store", ROIPoolBackward(index, top_diff, max_idx_), 0)]
    /\ reads' = reads \cup BackwardReads(index)
    /\ UNCHANGED <<Geometry, top_data, max_idx_, top_diff, bottom_diff, pc, writes>>

\* The store of one unit of ROIPoolBackward.
BackwardStore(index) ==
    /\ pc = "backward"
    /\ todo[index].at = "store"
    /\ bottom_diff' = [bottom_diff EXCEPT ![BottomAddress(index)] = todo[index].val]
    /\ writes' = Log(writes, { <<"bottom_diff", BottomAddress(index)>> }, index)
    /\ todo' = Retire(todo, index)
    /\ pc' = IF DOMAIN todo = {index} THEN "done" ELSE "backward"
    /\ UNCHANGED <<Geometry, top_data, max_idx_, top_diff, reads>>

\* Small volumes with two regions or two channels, so that the units of one
\* launch belong to different regions and channels.
ParRegions ==
    { Region(0, w, h, <<0, 0>>) : w \in {<<0, 1>>, <<1, 2>>}, h \in {<<0, 1>>, <<1, 0>>} }

ParConfigs ==
    { Config(<<1, 1, 1, 2, 2>>, pooled, <<2, 2>>, seed, r1 \o r2) :
        pooled \in {<<1, 1, 2>>, <<1, 2, 1>>}, seed \in FeatureSeeds,
        r1 \in ParRegions, r2 \in ParRegions }
    \cup { Config(<<1, 2, 1, 2, 1>>, pooled, <<2, 2>>, seed, r1) :
        pooled \in {<<1, 1, 2>>, <<1, 2, 1>>}, seed \in FeatureSeeds, r1 \in ParRegions }

InitPar == \E cfg \in ParConfigs : Setup(cfg)

NextPar ==
    \/ Forward_launch
    \/ \E index \in DOMAIN todo : ForwardLoad(index)
    \/ \E index \in DOMAIN todo : ForwardStore(index)
    \/ Backward_launch
    \/ \E index \in DOMAIN todo : BackwardLoad(index)
    \/ \E index \in DOMAIN todo : BackwardStore(index)

SpecPar == InitPar /\ [][NextPar]_vars

(***************************************************************************)
(* What the claims speak of, stated apart from the kernels' own operators. *)
(***************************************************************************)
Bins == 0..(top_count - 1)

Elems == 0..(bottom_count - 1)

\* The <<l, h, w>> of a box.
CellsOf(box) ==
    { <<l, h, w>> : l \in box.lstart..(box.lend - 1), h \in box.hstart..(box.hend - 1),
                    w \in box.wstart..(box.wend - 1) }

\* d*H*W + h*W + w.
Flat(cell) == cell[1] * height_ * width_ + cell[2] * width_ + cell[3]

\* The feature at (b, c, l, h, w) of the row-major volume.
ValueAt(b, c, cell) ==
    bottom_data[(((b * channels_ + c) * length_ + cell[1]) * height_ + cell[2]) * width_ + cell[3]]

MaxOf(S) == CHOOSE x \in S : \A y \in S : y <= x

MinOf(S) == CHOOSE x \in S : \A y \in S : x <= y

BinRoi(i) == Roi(bottom_rois, TopCoord(i).n)

\* The cells of bin i that hold value v.
BinCellsWith(i, v) ==
    { cell \in CellsOf(ScanBox(i)) : ValueAt(BinRoi(i).batch_ind, TopCoord(i).c, cell) = v }

\* C3 as stated: a non-empty scan box yields its maximum and the smallest flat
\* coordinate attaining it.
C3_MaxAndFirstArgmax ==
    pc = "pooled" =>
        \A i \in Bins :
            LET cells == CellsOf(ScanBox(i))
                b     == BinRoi(i).batch_ind
                c     == TopCoord(i).c
                best  == MaxOf({ValueAt(b, c, cell) : cell \in cells})
            IN  cells # {} =>
                    /\ top_data[i] = best
                    /\ max_idx_[i] =
                           MinOf({Flat(cell) : cell \in {x \in cells : ValueAt(b, c, x) = best}})

\* C3 amended: a non-empty scan box with a value above -FLT_MAX yields its
\* maximum and the smallest flat coordinate attaining it; one with no value
\* above -FLT_MAX yields -FLT_MAX and the index -1.
C3_MaxAboveFloor ==
    pc = "pooled" =>
        \A i \in Bins :
            LET cells == CellsOf(ScanBox(i))
                b     == BinRoi(i).batch_ind
                c     == TopCoord(i).c
                best  == MaxOf({ValueAt(b, c, cell) : cell \in cells})
            IN  cells # {} =>
                    IF best > 0 - FLT_MAX
                    THEN /\ top_data[i] = best
                         /\ max_idx_[i] =
                                MinOf({Flat(cell) : cell \in {x \in cells : ValueAt(b, c, x) = best}})
                    ELSE top_data[i] = 0 - FLT_MAX /\ max_idx_[i] = 0 - 1

\* A bin whose maximum is attained twice, and not by the first cell scanned.
C3_Witness ==
    /\ pc = "pooled"
    /\ \E i \in Bins :
          /\ top_data[i] > 0 - FLT_MAX
          /\ Cardinality(BinCellsWith(i, top_data[i])) >= 2
          /\ max_idx_[i] > MinOf({Flat(cell) : cell \in CellsOf(ScanBox(i))})

\* C4 as stated: the index is -1 exactly for an empty scan box, whose output is
\* 0; else it is a coordinate of the box and the output is the value there.
C4_IndexMinusOneIffEmpty ==
    pc = "pooled" =>
        \A i \in Bins :
            LET cells == CellsOf(ScanBox(i))
                b     == BinRoi(i).batch_ind
                c     == TopCoord(i).c
            IN  /\ max_idx_[i] = 0 - 1 <=> cells = {}
                /\ cells = {} => top_data[i] = 0
                /\ cells # {} =>
                      /\ max_idx_[i] \in 0..(length_ * height_ * width_ - 1)
                      /\ \E cell \in cells :
                            Flat(cell) = max_idx_[i] /\ top_data[i] = ValueAt(b, c, cell)

\* C4 amended: the index is -1 exactly when the scan box is empty or holds no
\* value above -FLT_MAX; an empty box has output 0; a box with a value above
\* -FLT_MAX has the index of one of its cells and that cell's value as output.
C4_IndexMinusOneIffNothingAboveFloor ==
    pc = "pooled" =>
        \A i \in Bins :
            LET cells == CellsOf(ScanBox(i))
                b     == BinRoi(i).batch_ind
                c     == TopCoord(i).c
                live  == \E cell \in cells : ValueAt(b, c, cell) > 0 - FLT_MAX
            IN  /\ max_idx_[i] = 0 - 1 <=> ~live
                /\ cells = {} => top_data[i] = 0
                /\ live =>
                      /\ max_idx_[i] \in 0..(length_ * height_ * width_ - 1)
                      /\ \E cell \in cells :
                            Flat(cell) = max_idx_[i] /\ top_data[i] = ValueAt(b, c, cell)

\* One region with an empty bin, a bin of -FLT_MAX alone and a bin that pooled.
C4_Witness ==
    /\ pc = "pooled"
    /\ \E k \in Bins : max_idx_[k] >= 0
    /\ \E i \in Bins : max_idx_[i] = 0 - 1 /\ CellsOf(ScanBox(i)) = {}
    /\ \E j \in Bins : max_idx_[j] = 0 - 1 /\ CellsOf(ScanBox(j)) # {}

RECURSIVE SumAt(_, _)
SumAt(array, S) ==
    IF S = {} THEN 0
    ELSE LET x == CHOOSE y \in S : TRUE IN array[x] + SumAt(array, S \ {x})

\* The address of element (n, c, l, h, w) of the row-major volume.
Addr(n, c, cell) == (((n * channels_ + c) * length_ + cell[1]) * height_ + cell[2]) * width_ + cell[3]

Volume == (0..(length_ - 1)) \X (0..(height_ - 1)) \X (0..(width_ - 1))

Regions == 0..(num_rois - 1)

\* The cell lies in the region's inclusive rounded box [start, end].
InBox(roi, cell) ==
    /\ roi.start_l <= cell[1] /\ cell[1] <= roi.end_l
    /\ roi.start_h <= cell[2] /\ cell[2] <= roi.end_h
    /\ roi.start_w <= cell[3] /\ cell[3] <= roi.end_w

WellFormed(roi) ==
    roi.start_l <= roi.end_l /\ roi.start_h <= roi.end_h /\ roi.start_w <= roi.end_w

\* The bins of region r and channel c.
BinsOf(r, c) == { i \in Bins : TopCoord(i).n = r /\ TopCoord(i).c = c }

AllOnes == \A i \in Bins : top_diff[i] = 1

C2_BackwardIsScatterAdd ==
    pc = "done" =>
        \A n \in 0..(num_ - 1), c \in 0..(channels_ - 1), cell \in Volume :
            bottom_diff[Addr(n, c, cell)]
                = SumAt(top_diff, {i \in Bins : /\ BinRoi(i).batch_ind = n
                                                /\ TopCoord(i).c = c
                                                /\ max_idx_[i] = Flat(cell)})

Outside(roi) ==
    \/ roi.start_l >= length_ \/ (roi.start_l < 0 /\ roi.end_l < 0)
    \/ roi.start_h >= height_ \/ (roi.start_h < 0 /\ roi.end_h < 0)
    \/ roi.start_w >= width_ \/ (roi.start_w < 0 /\ roi.end_w < 0)

\* C5 as stated: a malformed axis has extent 1; a region entirely outside the
\* volume has output 0 and index -1 in every bin and adds no gradient.
C5_DegenerateAndOutsideAbsorbed ==
    \A r \in Regions :
        LET roi == Roi(bottom_rois, r)
        IN  /\ roi.end_l < roi.start_l => RoiExtent(roi.start_l, roi.end_l) = 1
            /\ roi.end_h < roi.start_h => RoiExtent(roi.start_h, roi.end_h) = 1
            /\ roi.end_w < roi.start_w => RoiExtent(roi.start_w, roi.end_w) = 1
            /\ (pc = "pooled" /\ Outside(roi)) =>
                  \A i \in Bins : TopCoord(i).n = r => (top_data[i] = 0 /\ max_idx_[i] = 0 - 1)
            /\ (pc = "done" /\ Outside(roi)) =>
                  \A e \in Elems : RoiGradient(top_diff, max_idx_, r, BottomCoord(e)) = 0

\* A copy of array with region r's slice set to value.
WithSlice(array, r, value) ==
    [i \in DOMAIN array |-> IF TopCoord(i).n = r THEN value ELSE array[i]]

\* C6: the gradient of an element of batch b does not change when the output
\* gradient and the selection index of a region of another batch change, even
\* to an index that names the element itself.
C6_OtherBatchRegionsAddNothing ==
    pc = "done" =>
        \A r \in Regions, e \in Elems :
            LET at == BottomCoord(e)
            IN  at.n # Roi(bottom_rois, r).batch_ind =>
                    \A k \in {0 - 1, Flat(<<at.l, at.h, at.w>>)} :
                        ROIPoolBackward(e, WithSlice(top_diff, r, 7), WithSlice(max_idx_, r, k))
                            = bottom_diff[e]

\* Two regions of different batches, the second's box holding an element of
\* the first one's batch that received gradient.
C6_Witness ==
    /\ pc = "done" /\ num_rois = 2
    /\ \E e \in Elems :
          LET at == BottomCoord(e)
          IN  /\ at.n = Roi(bottom_rois, 0).batch_ind
              /\ at.n # Roi(bottom_rois, 1).batch_ind
              /\ InBox(Roi(bottom_rois, 1), <<at.l, at.h, at.w>>)
              /\ bottom_diff[e] > 0

\* The cells of the volume in region r's inclusive box.
RegionCells(r) == { cell \in Volume : InBox(Roi(bottom_rois, r), cell) }

DistinctIn(r, c) ==
    \A x, y \in RegionCells(r) :
        x # y => ValueAt(Roi(bottom_rois, r).batch_ind, c, x) # ValueAt(Roi(bottom_rois, r).batch_ind, c, y)

NoSharedIndex(r, c) ==
    \A i, j \in BinsOf(r, c) : (i # j /\ max_idx_[i] >= 0) => max_idx_[i] # max_idx_[j]

\* C8 as stated: with pairwise distinct values inside the region, no
\* coordinate is the selection index of two bins of a region and channel.
C8_DistinctValuesDistinctIndex ==
    pc = "pooled" =>
        \A r \in Regions, c \in 0..(channels_ - 1) : DistinctIn(r, c) => NoSharedIndex(r, c)

\* The region's extent is a multiple of the pooled extent on every axis.
ExactMultiples(roi) ==
    /\ (roi.end_l - roi.start_l + 1) % pooled_length_ = 0
    /\ (roi.end_h - roi.start_h + 1) % pooled_height_ = 0
    /\ (roi.end_w - roi.start_w + 1) % pooled_width_ = 0

\* C8 amended: with pairwise distinct values inside a region whose extent is,
\* on every axis, an exact multiple of the pooled extent (so the bins do not
\* overlap), no coordinate is the selection index of two bins.
C8_DistinctIndexWhenBinsDisjoint ==
    pc = "pooled" =>
        \A r \in Regions, c \in 0..(channels_ - 1) :
            LET roi == Roi(bottom_rois, r)
            IN  (DistinctIn(r, c) /\ WellFormed(roi) /\ ExactMultiples(roi)) => NoSharedIndex(r, c)

\* Distinct values, exact multiples, and 4 or more bins that all selected.
C8_Witness ==
    /\ pc = "pooled"
    /\ \E r \in Regions :
          LET roi == Roi(bottom_rois, r)
          IN  /\ DistinctIn(r, 0) /\ WellFormed(roi) /\ ExactMultiples(roi)
              /\ Cardinality(BinsOf(r, 0)) >= 4
              /\ \A i \in BinsOf(r, 0) : max_idx_[i] >= 0

InsideVolume(roi) ==
    /\ 0 <= roi.start_l /\ roi.start_l <= roi.end_l /\ roi.end_l < length_
    /\ 0 <= roi.start_h /\ roi.start_h <= roi.end_h /\ roi.end_h < height_
    /\ 0 <= roi.start_w /\ roi.start_w <= roi.end_w /\ roi.end_w < width_

\* [start + p*k, start + (p+1)*k) when extent = k * pooled.
ExactRange(lo, hi, roi_start, roi_end, p, pooled) ==
    (roi_end - roi_start + 1) % pooled = 0 =>
        /\ lo = roi_start + p * ((roi_end - roi_start + 1) \div pooled)
        /\ hi = roi_start + (p + 1) * ((roi_end - roi_start + 1) \div pooled)

\* C9: inside the volume an extent k*P is cut into the ranges
\* [start + i*k, start + (i+1)*k); the 4 x 4 x 4 volume pooled whole to
\* 2 x 2 x 2 has the ranges [0,2) and [2,4), and its first output is the
\* maximum of the sub-cube [0,2) x [0,2) x [0,2).
C9_ExactDivisionBins ==
    pc = "pooled" =>
        /\ \A i \in Bins :
              LET roi == BinRoi(i)
                  box == ScanBox(i)
                  t   == TopCoord(i)
              IN  InsideVolume(roi) =>
                      /\ ExactRange(box.lstart, box.lend, roi.start_l, roi.end_l, t.pl, pooled_length_)
                      /\ ExactRange(box.hstart, box.hend, roi.start_h, roi.end_h, t.ph, pooled_height_)
                      /\ ExactRange(box.wstart, box.wend, roi.start_w, roi.end_w, t.pw, pooled_width_)
        /\ ( /\ <<num_, channels_, length_, height_, width_>> = <<1, 1, 4, 4, 4>>
             /\ <<pooled_length_, pooled_height_, pooled_width_>> = <<2, 2, 2>>
             /\ RegionCells(0) = Volume ) =>
              /\ \A i \in Bins :
                    LET box == ScanBox(i)
                        t   == TopCoord(i)
                    IN  /\ <<box.lstart, box.lend>> = <<2 * t.pl, 2 * t.pl + 2>>
                        /\ <<box.hstart, box.hend>> = <<2 * t.ph, 2 * t.ph + 2>>
                        /\ <<box.wstart, box.wend>> = <<2 * t.pw, 2 * t.pw + 2>>
              /\ top_data[0] = MaxOf({ValueAt(0, 0, cell) : cell \in (0..1) \X (0..1) \X (0..1)})

\* The 4 x 4 x 4 volume pooled whole to 2 x 2 x 2.
C9_Witness ==
    /\ pc = "pooled"
    /\ <<num_, channels_, length_, height_, width_>> = <<1, 1, 4, 4, 4>>
    /\ <<pooled_length_, pooled_height_, pooled_width_>> = <<2, 2, 2>>
    /\ WellFormed(Roi(bottom_rois, 0)) /\ RegionCells(0) = Volume
    /\ top_data[0] > 0 /\ max_idx_[0] > 0

\* C10 as stated: for a well-formed region the scan boxes of its bins cover
\* exactly the part of the region's inclusive box that is in the volume.
C10_ScanBoxesCoverRegion ==
    pc = "pooled" =>
        \A r \in Regions :
            WellFormed(Roi(bottom_rois, r)) =>
                UNION {CellsOf(ScanBox(i)) : i \in BinsOf(r, 0)} = RegionCells(r)

\* C7: in a Forward (Backward) launch whose units take their steps in any
\* order, no address is written by two units, no address that is read is
\* written, and once the launch is over every output and selection-index
\* address (every gradient address) has been written by exactly one unit and
\* the arrays are what running the units one after another gives.
WrittenOnce(arrays, count) ==
    /\ DOMAIN writes = arrays \X (0..(count - 1))
    /\ \A x \in DOMAIN writes : Cardinality(writes[x]) = 1

C7_UnitsAreIndependent ==
    /\ \A x \in DOMAIN writes : Cardinality(writes[x]) <= 1
    /\ reads \cap DOMAIN writes = {}
    /\ pc = "pooled" =>
          /\ WrittenOnce({"top_data", "argmax_data"}, top_count)
          /\ top_data = [i \in Bins |-> ROIPoolForward(i).maxval]
          /\ max_idx_ = [i \in Bins |-> ROIPoolForward(i).maxidx]
    /\ pc = "done" =>
          /\ WrittenOnce({"bottom_diff"}, bottom_count)
          /\ bottom_diff = [i \in Elems |-> ROIPoolBackward(i, top_diff, max_idx_)]

\* A backward launch is over, its units having read selection indices and
\* output gradients and written gradients that are not all zero.
C7_Witness ==
    /\ pc = "done"
    /\ writes # <<>>
    /\ \E x \in reads : x[1] = "top_diff"
    /\ \E x \in reads : x[1] = "argmax_data"
    /\ \E i \in Elems : bottom_diff[i] > 1
    /\ num_rois * channels_ > 1
====
